---- MODULE Spec2Model ----
(***************************************************************************)
(* Model of notebooks_experiments/01_indexes.ipynb: packing a MUSDB18       *)
(* partition into one hdf5 container per track.                             *)
(*                                                                          *)
(*   cell 2  float32_to_int16            clip, scale by 32767, cast         *)
(*   cell 3  preprocess_audio            mono mix-down, resample, 2-D shape *)
(*   cell 4  write_single_audio_to_hdf5  one packing job                    *)
(*   last    the dispatch loop           ProcessPoolExecutor + pool.map     *)
(*                                                                          *)
(* A waveform is modelled by its shape and by whether all of its samples    *)
(* are finite; a single sample is a fixed-point number n / SampleDen.       *)
(* The catalog (musdb), the resampler (librosa) and the container library   *)
(* (h5py) are modelled by what the calls of the notebook get from them.     *)
(***************************************************************************)
EXTENDS Integers, Naturals, Sequences, FiniteSets, TLC

\* ------------------------------------------------------------------ bounds
SampleDen   == 16  \* a sample x is the rational n / SampleDen
MaxChannels == 3   \* channel counts of raw waveforms
MaxSamples  == 2   \* sample counts of raw waveforms
MaxRate     == 2   \* sample rates (in model units)
MaxTypes    == 2   \* length of the requested source-type list
MaxTracks   == 4   \* tracks of the partition
MaxWorkers  == 2   \* worker processes of the pool

\* ------------------------------------------------------- program constants
INT16_SCALE        == 32767  \* the factor 32767.0 of float32_to_int16
EXTRA_QUEUED_CALLS == 1      \* ProcessPoolExecutor: call queue = workers + 1

hdf5s_dir == "hdf5s"

\* ------------------------------------------------------------ arithmetic
Abs(n) == IF n < 0 THEN -n ELSE n

\* int(): truncation toward zero of the rational num / den (den > 0)
TruncDiv(num, den) == IF num >= 0 THEN num \div den ELSE -((-num) \div den)

\* np.ceil of the rational num / den (den > 0)
CeilDiv(num, den) == -((-num) \div den)

\* ndarray.astype(np.int16): keep the low 16 bits, two's complement
AsInt16(v) == ((v + 32768) % 65536) - 32768

\* ------------------------------------------------- cell 2: float32_to_int16
\* np.clip(x, a_min=-1, a_max=1) on the numerator n of x = n / SampleDen
np_clip(n) == IF n < -SampleDen THEN -SampleDen
              ELSE IF n > SampleDen THEN SampleDen ELSE n

\* the same function without the clip (a plausible slip)
float32_to_int16_noclip(n) == AsInt16(TruncDiv(n * INT16_SCALE, SampleDen))

\* (np.clip(x, -1, 1) * 32767.0).astype(np.int16)
float32_to_int16(n) == AsInt16(TruncDiv(np_clip(n) * INT16_SCALE, SampleDen))

\* ------------------------------------------------- cell 3: preprocess_audio
Array(shape, finite) == [shape |-> shape, finite |-> finite]
Raise(e) == [err |-> e]
IsErr(r) == "err" \in DOMAIN r

\* np.mean(audio, axis=0) of a (channels, samples) array: a (samples,) array;
\* the mean over zero channels is NaN (a warning, not an exception)
np_mean_axis0(audio) ==
    Array(<<audio.shape[2]>>,
          audio.finite /\ (audio.shape[1] > 0 \/ audio.shape[2] = 0))

\* the mean taken over the wrong axis (a plausible slip)
np_mean_axis1(audio) ==
    Array(<<audio.shape[1]>>,
          audio.finite /\ (audio.shape[2] > 0 \/ audio.shape[1] = 0))

\* librosa.core.resample along the last axis: rejects non-finite buffers,
\* returns the input as is when the two rates are equal, otherwise the
\* resampler (resampy, res_type kaiser_fast) rejects non-positive rates and
\* signals too short to give one output sample, and the result has
\* ceil(samples * target_sr / orig_sr) samples.
resample(audio, orig_sr, target_sr) ==
    LET d == Len(audio.shape)
        n == audio.shape[d]
    IN  IF ~audio.finite THEN Raise("ParameterError")
        ELSE IF orig_sr = target_sr THEN audio
        ELSE IF orig_sr = 0 THEN Raise("ZeroDivisionError")
        ELSE IF orig_sr < 0 \/ target_sr <= 0 THEN Raise("ValueError")
        ELSE IF (n * target_sr) \div orig_sr < 1 THEN Raise("ValueError")
        ELSE Array([audio.shape EXCEPT ![d] = CeilDiv(n * target_sr, orig_sr)],
                   TRUE)

\* output[None, :] when output.ndim == 1
expand_dims(output) ==
    IF Len(output.shape) = 1
    THEN Array(<<1>> \o output.shape, output.finite)
    ELSE output

\* preprocess_audio without the final output[None, :] (a plausible slip)
preprocess_audio_noexpand(audio, mono, origin_sr, sr) ==
    resample(IF mono THEN np_mean_axis0(audio) ELSE audio, origin_sr, sr)

\* preprocess_audio averaging over the sample axis (a plausible slip)
preprocess_audio_axis1(audio, mono, origin_sr, sr) ==
    LET output == resample(IF mono THEN np_mean_axis1(audio) ELSE audio,
                           origin_sr, sr)
    IN  IF IsErr(output) THEN output ELSE expand_dims(output)

preprocess_audio(audio, mono, origin_sr, sr) ==
    LET output == resample(IF mono THEN np_mean_axis0(audio) ELSE audio,
                           origin_sr, sr)
    IN  IF IsErr(output) THEN output ELSE expand_dims(output)

\* ------------------------------------- cell 4: write_single_audio_to_hdf5
VARIABLES
    arg,       \* arguments of a direct call of a cell 2 / cell 3 function
    ret,       \* what that call returned or raised
    tracks,    \* mus.tracks: the catalog's tracks (read-only input)
    cfg,       \* the parameters every param tuple carries
    dpc,       \* where the dispatching process stands in the last cell
    nxt,       \* index of the future whose result pool.map yields next
    progress,  \* what the tqdm bar has counted
    item,      \* per work item: the state of its future and its loop index
    files,     \* the file system below hdf5s_dir: path -> container
    completed  \* the work items whose future has finished, in that order

vars == <<arg, ret, tracks, cfg, dpc, nxt, progress, item, files, completed>>

\* The notebook's list is vocals, drums, bass, other, accompaniment; the
\* model keeps its first and its last (derived) stem.
StemLabels  == {"vocals", "accompaniment"}
TypeLabels  == StemLabels \cup {"mixture"}
SOURCE_TYPES == <<"vocals", "accompaniment">>

\* os.path.join(hdf5s_dir, "{}.h5".format(track.name)), ignoring the name
\* (a plausible slip)
hdf5_path_noname(name) == <<hdf5s_dir, ".h5">>

\* os.path.join(hdf5s_dir, "{}.h5".format(track.name))
hdf5_path(name) == <<hdf5s_dir, name \o ".h5">>

\* h5py.File(hdf5_path, "w") followed by the two hf.attrs.create calls:
\* a new (or truncated) container holding only the header
NewFile(name, sample_rate) ==
    [attrs    |-> [audio_name |-> name, sample_rate |-> sample_rate],
     datasets |-> <<>>,
     open     |-> TRUE]

\* hf.create_dataset(name=..., data=float32_to_int16(audio), dtype=np.int16):
\* h5py refuses a name the container already holds
create_dataset(hf, name, audio) ==
    IF \E j \in 1..Len(hf.datasets) : hf.datasets[j].name = name
    THEN Raise("ValueError")
    ELSE [hf EXCEPT !.datasets =
            Append(@, [name |-> name, shape |-> audio.shape, dtype |-> "int16"])]

\* leaving the with block: the container is closed, whatever it holds
CloseFile(hf) == [hf EXCEPT !.open = FALSE]

\* ndarray.T of a 2-D array: musdb gives (samples, channels)
np_T(audio) == Array(<<audio.shape[2], audio.shape[1]>>, audio.finite)

\* one iteration of the loop without the transposition (a plausible slip)
StemStep_noT(hf, track, source_type) ==
    IF source_type \notin DOMAIN track.targets THEN Raise("KeyError")
    ELSE LET audio == preprocess_audio(track.targets[source_type], cfg.mono,
                                       track.rate, cfg.sample_rate)
         IN  IF IsErr(audio) THEN audio
             ELSE create_dataset(hf, source_type, audio)

\* one iteration of the loop over source_types (lines 103-116)
StemStep(hf, track, source_type) ==
    IF source_type \notin DOMAIN track.targets THEN Raise("KeyError")
    ELSE LET audio == preprocess_audio(np_T(track.targets[source_type]),
                                       cfg.mono, track.rate, cfg.sample_rate)
         IN  IF IsErr(audio) THEN audio
             ELSE create_dataset(hf, source_type, audio)

\* the mixture (lines 118-126)
MixtureStep(hf, track) ==
    IF IsErr(track.audio) THEN track.audio
    ELSE LET audio == preprocess_audio(np_T(track.audio), cfg.mono,
                                       track.rate, cfg.sample_rate)
         IN  IF IsErr(audio) THEN audio
             ELSE create_dataset(hf, "mixture", audio)

Items == DOMAIN item
InState(s) == {i \in Items : item[i].state = s}
PathOf(i) == hdf5_path(tracks[i].name)
SetFile(p, hf) == [q \in DOMAIN files \cup {p} |-> IF q = p THEN hf ELSE files[q]]
Min(S) == CHOOSE m \in S : \A n \in S : m <= n

\* A worker takes the oldest call item off the call queue and runs the job
\* up to the header attributes (lines 79-101).
Begin(i) ==
    /\ InState("queued") # {}
    /\ i = Min(InState("queued"))
    /\ Cardinality(InState("running")) < cfg.max_workers
    /\ item' = [item EXCEPT ![i] = [state |-> "running", k |-> 1]]
    /\ files' = SetFile(PathOf(i), NewFile(tracks[i].name, cfg.sample_rate))
    /\ UNCHANGED <<arg, ret, tracks, cfg, dpc, nxt, progress, completed>>

\* One iteration of a loop that walks source_types from its end (a
\* plausible slip: any other order of iteration)
Stem_reversed(i) ==
    /\ item[i].state = "running"
    /\ item[i].k <= Len(cfg.source_types)
    /\ LET p == PathOf(i)
           r == StemStep(files[p], tracks[i],
                         cfg.source_types[Len(cfg.source_types) + 1 - item[i].k])
       IN  IF IsErr(r)
           THEN /\ files' = SetFile(p, CloseFile(files[p]))
                /\ item' = [item EXCEPT ![i].state = "failed"]
                /\ completed' = Append(completed, i)
           ELSE /\ files' = SetFile(p, r)
                /\ item' = [item EXCEPT ![i].k = @ + 1]
                /\ UNCHANGED completed
    /\ UNCHANGED <<arg, ret, tracks, cfg, dpc, nxt, progress>>

\* One iteration of the loop over source_types; an exception leaves the
\* with block (closing the container) and becomes the future's exception.
Stem(i) ==
    /\ item[i].state = "running"
    /\ item[i].k <= Len(cfg.source_types)
    /\ LET p == PathOf(i)
           r == StemStep(files[p], tracks[i], cfg.source_types[item[i].k])
       IN  IF IsErr(r)
           THEN /\ files' = SetFile(p, CloseFile(files[p]))
                /\ item' = [item EXCEPT ![i].state = "failed"]
                /\ completed' = Append(completed, i)
           ELSE /\ files' = SetFile(p, r)
                /\ item' = [item EXCEPT ![i].k = @ + 1]
                /\ UNCHANGED completed
    /\ UNCHANGED <<arg, ret, tracks, cfg, dpc, nxt, progress>>

\* The mixture, the end of the with block and the print (lines 118-128).
Mixture(i) ==
    /\ item[i].state = "running"
    /\ item[i].k > Len(cfg.source_types)
    /\ LET p == PathOf(i)
           r == MixtureStep(files[p], tracks[i])
       IN  IF IsErr(r)
           THEN /\ files' = SetFile(p, CloseFile(files[p]))
                /\ item' = [item EXCEPT ![i].state = "failed"]
           ELSE /\ files' = SetFile(p, CloseFile(r))
                /\ item' = [item EXCEPT ![i].state = "done"]
    /\ completed' = Append(completed, i)
    /\ UNCHANGED <<arg, ret, tracks, cfg, dpc, nxt, progress>>

\* ------------------------------------------ last cell: the dispatch loop
\* pool.map(write_single_audio_to_hdf5, params): one future per track, all
\* submitted before the first result is asked for.
Submit ==
    /\ dpc = "start"
    /\ item' = [i \in Items |-> [state |-> "pending", k |-> 0]]
    /\ dpc' = "iter"
    /\ nxt' = 1
    /\ UNCHANGED <<arg, ret, tracks, cfg, progress, files, completed>>

\* The executor's manager thread moves the oldest pending work item to the
\* call queue (max_workers + EXTRA_QUEUED_CALLS slots); its future is then
\* running and can no longer be cancelled.
Enqueue(i) ==
    /\ InState("pending") # {}
    /\ i = Min(InState("pending"))
    /\ Cardinality(InState("queued")) < cfg.max_workers + EXTRA_QUEUED_CALLS
    /\ item' = [item EXCEPT ![i].state = "queued"]
    /\ UNCHANGED <<arg, ret, tracks, cfg, dpc, nxt, progress, files, completed>>

\* for _ in tqdm(pool.map(...)): the next result, in submission order.
Yield ==
    /\ dpc = "iter"
    /\ nxt \in Items
    /\ item[nxt].state = "done"
    /\ progress' = progress + 1
    /\ nxt' = nxt + 1
    /\ UNCHANGED <<arg, ret, tracks, cfg, dpc, item, files, completed>>

\* The next result is an exception: the result iterator's finally clause
\* cancels every future that is still pending, and the exception leaves the
\* for loop and enters the with block's exit, shutdown(wait=True).
YieldError ==
    /\ dpc = "iter"
    /\ nxt \in Items
    /\ item[nxt].state = "failed"
    /\ item' = [i \in Items |->
                  IF item[i].state = "pending"
                  THEN [item[i] EXCEPT !.state = "cancelled"] ELSE item[i]]
    /\ dpc' = "aborting"
    /\ UNCHANGED <<arg, ret, tracks, cfg, nxt, progress, files, completed>>

\* Every result was yielded: the with block ends and the time is printed.
Exit ==
    /\ dpc = "iter"
    /\ nxt \notin Items
    /\ dpc' = "finished"
    /\ UNCHANGED <<arg, ret, tracks, cfg, nxt, progress, item, files, completed>>

\* shutdown(wait=True) returns once no work item is queued or running; the
\* exception then ends the cell.
Abort ==
    /\ dpc = "aborting"
    /\ InState("queued") \cup InState("running") = {}
    /\ dpc' = "aborted"
    /\ UNCHANGED <<arg, ret, tracks, cfg, nxt, progress, item, files, completed>>

\* ------------------------------------------- direct calls of cells 2 and 3
NoCall == [fn |-> "none"]

CallQuant ==
    /\ arg.fn = "float32_to_int16"
    /\ ret = NoCall
    /\ ret' = [fn |-> arg.fn, value |-> float32_to_int16(arg.x)]
    /\ UNCHANGED <<arg, tracks, cfg, dpc, nxt, progress, item, files, completed>>

CallPre ==
    /\ arg.fn = "preprocess_audio"
    /\ ret = NoCall
    /\ ret' = [fn |-> arg.fn,
               value |-> preprocess_audio(arg.audio, arg.mono,
                                          arg.origin_sr, arg.sr)]
    /\ UNCHANGED <<arg, tracks, cfg, dpc, nxt, progress, item, files, completed>>

\* ------------------------------------------------------------ initial states
Samples == (-2 * SampleDen)..(2 * SampleDen)
Rates   == 1..MaxRate

QuantArgs == [fn : {"float32_to_int16"}, x : Samples]
PreArgs ==
    [fn : {"preprocess_audio"},
     audio : {Array(<<c, n>>, TRUE) : c \in 0..MaxChannels, n \in 0..MaxSamples},
     mono : BOOLEAN,
     origin_sr : (-1)..MaxRate,
     sr : (-1)..MaxRate]

TrackName(i) == "track" \o ToString(i)

\* the lists of at most n distinct labels of S
ListsUpTo(S, n) ==
    {l \in UNION {[1..m -> S] : m \in 0..n} :
       \A a, b \in DOMAIN l : l[a] = l[b] => a = b}

\* the stems a catalog may offer for one track of `samples` samples
TargetSets(samples) ==
    UNION {[L -> {Array(<<samples, c>>, TRUE) : c \in 1..MaxChannels}] :
             L \in SUBSET StemLabels}

\* no job is set up
NoPool ==
    /\ tracks = <<>>
    /\ cfg = [source_types |-> <<>>, mono |-> FALSE, sample_rate |-> 1,
              max_workers |-> 1]
    /\ dpc = "start"
    /\ nxt = 0
    /\ progress = 0
    /\ item = <<>>
    /\ files = <<>>
    /\ completed = <<>>

PoolStart ==
    /\ dpc = "start"
    /\ nxt = 0
    /\ progress = 0
    /\ item = [i \in DOMAIN tracks |-> [state |-> "none", k |-> 0]]
    /\ files = <<>>
    /\ completed = <<>>

\* cells 2 and 3 called directly, on any argument
InitFn ==
    /\ arg \in QuantArgs \cup PreArgs
    /\ ret = NoCall
    /\ NoPool

\* one track of any content, packed by a pool of one worker
InitPack ==
    /\ arg = NoCall
    /\ ret = NoCall
    /\ \E n \in 1..MaxSamples, r \in Rates :
         tracks \in [1..1 ->
            [name : {TrackName(1)}, rate : {r}, targets : TargetSets(n),
             audio : {Array(<<n, c>>, TRUE) : c \in 1..MaxChannels}
                     \cup {Raise("FileNotFoundError")}]]
    /\ cfg \in [source_types : ListsUpTo(TypeLabels, MaxTypes), mono : BOOLEAN,
                sample_rate : Rates, max_workers : {1}]
    /\ PoolStart

\* a partition of stereo tracks, some without the accompaniment stem, packed
\* with the notebook's source-type list by a pool of any size
Init ==
    /\ arg = NoCall
    /\ ret = NoCall
    /\ \E n \in 1..MaxTracks :
         tracks \in [1..n ->
            UNION {[name : {TrackName(i)}, rate : {1},
                    targets : {t \in TargetSets(1) :
                                 /\ "vocals" \in DOMAIN t
                                 /\ \A l \in DOMAIN t : t[l].shape[2] = 2},
                    audio : {Array(<<1, 2>>, TRUE)}] : i \in 1..n}]
    /\ \A i \in DOMAIN tracks : tracks[i].name = TrackName(i)
    /\ cfg \in [source_types : {SOURCE_TYPES}, mono : BOOLEAN,
                sample_rate : {1}, max_workers : 1..MaxWorkers]
    /\ PoolStart

NextFn == CallQuant \/ CallPre

Next ==
    \/ Submit
    \/ \E i \in Items : Enqueue(i)
    \/ \E i \in Items : Begin(i)
    \/ \E i \in Items : Stem(i)
    \/ \E i \in Items : Mixture(i)
    \/ Yield
    \/ YieldError
    \/ Exit
    \/ Abort

SpecFn   == InitFn /\ [][NextFn]_vars
SpecPack == InitPack /\ [][Next]_vars
Spec     == Init /\ [][Next]_vars

\* ===================================================================== claims
\* --------------------------------------------------- under SpecFn (cells 2, 3)
QuantReturned == ret.fn = "float32_to_int16"
PreReturned   == ret.fn = "preprocess_audio"

\* C1: for every sample x = arg.x / SampleDen, inside or outside [-1, 1],
\* float32_to_int16 returns 32767 * clip(x, -1, 1) truncated toward zero: the
\* result v has the sign of the clipped sample c, |v| is the largest integer
\* with |v| <= 32767 * |c|, and v lies in [-32767, 32767] (never -32768).
C1_QuantizeTruncatesClipped ==
    QuantReturned =>
        LET lo == IF arg.x > SampleDen THEN SampleDen ELSE arg.x
            c  == IF lo < -SampleDen THEN -SampleDen ELSE lo
            v  == ret.value
        IN  /\ v \in (-32767)..32767
            /\ (c >= 0 => v >= 0) /\ (c <= 0 => v <= 0)
            /\ Abs(v) * SampleDen <= 32767 * Abs(c)
            /\ 32767 * Abs(c) < (Abs(v) + 1) * SampleDen

\* C1 witness: a sample below -1 was quantized to -32767
C1_Witness ==
    QuantReturned /\ arg.x < -SampleDen /\ ret.value = -32767

\* C2: for a waveform of at least one channel and two positive rates, what
\* preprocess_audio returns is 2-D, with one channel when mono is true and
\* with the input's channel count when mono is false.
C2_ChannelCount ==
    (/\ PreReturned
     /\ ~IsErr(ret.value)
     /\ arg.audio.shape[1] >= 1
     /\ arg.origin_sr > 0 /\ arg.sr > 0)
    => /\ Len(ret.value.shape) = 2
       /\ ret.value.shape[1] = IF arg.mono THEN 1 ELSE arg.audio.shape[1]

\* C2 witness: a three-channel waveform was resampled in stereo mode and
\* came back with three channels
C2_Witness ==
    /\ PreReturned /\ ~IsErr(ret.value)
    /\ ~arg.mono /\ arg.audio.shape[1] = 3
    /\ arg.origin_sr > 0 /\ arg.sr > arg.origin_sr
    /\ ret.value.shape[1] = 3

\* C8: preprocess_audio raises whenever origin_sr <= 0, or sr <= 0, or the
\* waveform has no channel, whatever the channel mode.
C8_InvalidInputRaises ==
    (/\ PreReturned
     /\ \/ arg.origin_sr <= 0
        \/ arg.sr <= 0
        \/ arg.audio.shape[1] = 0)
    => IsErr(ret.value)

\* ------------------------------------------- under SpecPack (one packing job)
Requested == {cfg.source_types[j] : j \in DOMAIN cfg.source_types}
Ended(i)  == item[i].state \in {"done", "failed"}
HasFile(i) == PathOf(i) \in DOMAIN files
Datasets(i) == files[PathOf(i)].datasets
DatasetNames(i) == {Datasets(i)[j].name : j \in DOMAIN Datasets(i)}

\* channel count of the raw waveform a dataset of track i was made from
RawChannels(i, name) ==
    IF name = "mixture" THEN tracks[i].audio.shape[2]
    ELSE tracks[i].targets[name].shape[2]

Sound(i) ==
    /\ ~IsErr(tracks[i].audio)
    /\ ~IsErr(preprocess_audio(np_T(tracks[i].audio), cfg.mono,
                               tracks[i].rate, cfg.sample_rate))

Available(i) == DOMAIN tracks[i].targets

\* the header and exactly one array per name of S
Holds(i, S) ==
    /\ HasFile(i)
    /\ files[PathOf(i)].attrs =
          [audio_name |-> tracks[i].name, sample_rate |-> cfg.sample_rate]
    /\ DatasetNames(i) = S
    /\ Len(Datasets(i)) = Cardinality(S)

\* C5: the packing job of a sound track whose requested stems are all
\* available completes, and its container then holds both attributes, exactly
\* one array per requested source type and exactly one array "mixture"; also
\* when the requested list itself names "mixture".
C5_OneArrayPerType ==
    \A i \in Items :
        (Ended(i) /\ Sound(i) /\ (Requested \ {"mixture"}) \subseteq Available(i))
        => /\ item[i].state = "done"
           /\ Holds(i, Requested \cup {"mixture"})

\* the stems a track may lack (the derived stem of the notebook's list)
OptionalStems == {"accompaniment"}

\* C6: the packing job of a sound track that lacks only optional stems of the
\* requested list completes, and its container holds every other requested
\* source type and the mixture.
C6_MissingOptionalStemSkipped ==
    \A i \in Items :
        (/\ Ended(i) /\ Sound(i)
         /\ "mixture" \notin Requested
         /\ (Requested \ Available(i)) \subseteq OptionalStems)
        => /\ item[i].state = "done"
           /\ Holds(i, (Requested \cap Available(i)) \cup {"mixture"})

\* C7: after a packing job has failed, no file exists at the track's output
\* path (a file the job leaves is a closed, readable container with the
\* header and the arrays written before the failure).
C7_NoFileAfterFailure ==
    \A i \in Items : item[i].state = "failed" => ~HasFile(i)

\* ------------------------------------------------ under Spec (the dispatch)
DispatcherEnded == dpc \in {"finished", "aborted"}
NoItemFailed    == \A i \in Items : item[i].state # "failed"

\* the closed container of track i with its header and every array
Complete(i) ==
    /\ Holds(i, Requested \cup {"mixture"})
    /\ ~files[PathOf(i)].open

\* C9: the tracks have distinct names; if no work item failed, then once the
\* dispatcher has finished there are exactly as many container files as
\* tracks, one complete container per track, for every pool size and every
\* order of completion.
C9_OneFilePerTrack ==
    (DispatcherEnded /\ NoItemFailed)
    => /\ dpc = "finished"
       /\ progress = Len(tracks)
       /\ Cardinality(DOMAIN files) = Len(tracks)
       /\ \A i \in Items : item[i].state = "done" /\ Complete(i)

\* C9 witness: the dispatcher finished a partition of MaxTracks tracks with a
\* pool of two workers and there are MaxTracks files
C9_Witness ==
    /\ dpc = "finished"
    /\ Len(tracks) = MaxTracks
    /\ cfg.max_workers = 2
    /\ Cardinality(DOMAIN files) = MaxTracks

\* C10: a failed work item leaves the others alone: once the dispatcher has
\* ended, every work item that did not itself fail has run to completion and
\* written its container file.
C10_FailureIsolated ==
    DispatcherEnded =>
        \A i \in Items :
            item[i].state # "failed" => item[i].state = "done" /\ Complete(i)

\* work item i ran to completion (its future holds a result, no exception)
RanToCompletion(i) == item[i].state = "done"

\* C11: progress is reported once per completed work item and in the order
\* of completion: the k-th work item the progress bar has counted is the k-th
\* work item that completed (the bar counts the results pool.map has yielded,
\* which are those of work items 1..progress).
C11_ProgressInCompletionOrder ==
    LET order == SelectSeq(completed, RanToCompletion)
    IN  /\ progress <= Len(order)
        /\ \A k \in 1..progress : order[k] = k

\* the paths of the containers that are open for writing
OpenPaths == {p \in DOMAIN files : files[p].open}

\* C12: the tracks have distinct names; at any time the containers open for
\* writing are exactly those of the running work items, one per running work
\* item, each holding the header of the track its work item is packing, and
\* no two running work items have the same output path.
C12_OwnFileOnly ==
    /\ \A i, j \in InState("running") : PathOf(i) = PathOf(j) => i = j
    /\ OpenPaths = {PathOf(i) : i \in InState("running")}
    /\ Cardinality(OpenPaths) = Cardinality(InState("running"))
    /\ \A i \in InState("running") :
          files[PathOf(i)].attrs.audio_name = tracks[i].name

\* C12 witness: two work items are running at once, each with its own
\* container open and an array already written
C12_Witness ==
    \E i, j \in InState("running") :
        /\ i # j
        /\ files[PathOf(i)].open /\ files[PathOf(j)].open
        /\ Len(Datasets(i)) >= 1 /\ Len(Datasets(j)) >= 1

\* the order in which a complete job writes its arrays
WriteOrder == cfg.source_types \o <<"mixture">>

\* C13: a container always holds both header attributes, and the arrays it
\* holds were written in the order of the requested list, the mixture after
\* every requested stem: the names of its arrays, in the order of writing,
\* are a prefix of the requested list followed by "mixture".
C13_WriteOrder ==
    \A i \in Items : HasFile(i) =>
        /\ DOMAIN files[PathOf(i)].attrs = {"audio_name", "sample_rate"}
        /\ Len(Datasets(i)) <= Len(WriteOrder)
        /\ \A j \in DOMAIN Datasets(i) : Datasets(i)[j].name = WriteOrder[j]

\* C13 witness: a finished container of a job over two requested stems holds
\* three arrays, the mixture last
C13_Witness ==
    \E i \in Items :
        /\ item[i].state = "done"
        /\ Len(cfg.source_types) = 2
        /\ Len(Datasets(i)) = 3
        /\ Datasets(i)[3].name = "mixture"

====
